---- MODULE Spec2Model ----
(***************************************************************************)
(* Restaurant Order Manager (src/app.py): a Streamlit script over one      *)
(* SQLite store with the tables `orders` and `menu`.  Every browser        *)
(* session re-executes the script from the top on each interaction; the    *)
(* sessions share the store and interleave at the granularity of one SQL   *)
(* statement.                                                              *)
(*                                                                         *)
(* Modelling conventions                                                   *)
(*  - a table is the set of its rows; a row is a record of its columns.    *)
(*    created_at is written once by add_order and only read by ORDER BY    *)
(*    and a caption, so it is not a column of the model and query results  *)
(*    are the set of the rows returned;                                    *)
(*  - prices are integers (the REAL column holds the amounts of the menu).  *)
(***************************************************************************)
EXTENDS Integers, FiniteSets, Sequences, TLC

\* ------------------------------------------------------------------ bounds
NumSessions == 2
MaxOrders == 2
MaxQty == 2
MaxLines == 1
MaxTable == 2
SeedLen == 1
MaxMenuAdds == 1
MaxSeedRuns == 2

\* --------------------------------------------------------------- constants
NUM_TABLES == 7

MIGRATION_MENU_ITEMS ==
  << "Porotta", "Dosa", "Idly", "Chaya", "Lime",
     "Chicken Curry", "Beef Fry", "Vada", "Chappathi" >>

MIGRATION_MENU_PRICES ==
  [ n \in { MIGRATION_MENU_ITEMS[i] : i \in DOMAIN MIGRATION_MENU_ITEMS } |->
      CASE n = "Porotta" -> 12 [] n = "Dosa" -> 40 [] n = "Idly" -> 30
        [] n = "Chaya" -> 10 [] n = "Lime" -> 20 [] n = "Chicken Curry" -> 150
        [] n = "Beef Fry" -> 180 [] n = "Vada" -> 10 [] n = "Chappathi" -> 15 ]

Statuses == { "Preparing", "Ready", "Served" }

\* ------------------------------------------------------------ input sets
Sessions == 1 .. NumSessions

Tables == 1 .. (IF MaxTable < NUM_TABLES THEN MaxTable ELSE NUM_TABLES)

\* The prefix of the default list that the bounded model seeds.
SeedItems ==
  { MIGRATION_MENU_ITEMS[i] :
      i \in 1 .. (IF SeedLen < Len(MIGRATION_MENU_ITEMS)
                    THEN SeedLen ELSE Len(MIGRATION_MENU_ITEMS)) }

\* Names and prices an administrator types in the Configuration view.
ConfigNames == SeedItems \cup { "Tea" }

ConfigPrices == { 12, 50 }

\* Arguments of update_qty: the Waiter buttons pass -1 and 1; any larger
\* decrement acts as -MaxQty does, any larger increment leaves the bound.
Deltas == (0 - MaxQty .. MaxQty) \ { 0 }

\* ------------------------------------------------------------------ state
VARIABLES
  orders,     \* table orders: set of rows
  orderSeq,   \* AUTOINCREMENT counter of orders (largest id handed out)
  menu,       \* table menu: set of rows [id, name, price]
  menuSeq,    \* AUTOINCREMENT counter of menu
  seedRuns,   \* history: how many script runs took the seeding branch
  pc,         \* per session: position of its current script run
  click,      \* per session: the widget whose handler is running
  loc,        \* per session: local variable of the running handler
  ret,        \* last value returned by a function called directly
  collapsed   \* history: ids of the rows update_qty deleted

vars == << orders, orderSeq, menu, menuSeq, seedRuns, pc, click, loc, ret, collapsed >>

NoClick == [ kind |-> "none", id |-> 0, table |-> 0, section |-> 0, option |-> 0,
             item |-> "", qty |-> 0, parcel |-> FALSE, price |-> 0 ]

NoRet == [ fn |-> "none" ]

\* ------------------------------------------------------------ store: menu
MenuNames(m) == { e.name : e \in m }

\* INSERT INTO menu (name, price): the UNIQUE(name) constraint rejects a
\* duplicate with IntegrityError, an accepted row takes the next id.
MenuInsertOk(m, name) == name \notin MenuNames(m)

MenuInsert(m, seq, name, price) ==
  m \cup { [ id |-> seq + 1, name |-> name, price |-> price ] }

\* UPDATE menu SET name=?, price=? WHERE id=?: rejected when another row
\* already carries the name.
MenuUpdateOk_no_unique(m, item_id, name) == TRUE

MenuUpdateOk(m, item_id, name) ==
  ~ ( (\E x \in m : x.id = item_id)
      /\ (\E e \in m : e.id # item_id /\ e.name = name) )

MenuUpdate(m, item_id, name, price) ==
  { IF e.id = item_id THEN [ e EXCEPT !.name = name, !.price = price ] ELSE e
      : e \in m }

RECURSIVE SeedFrom(_, _, _)
\* The migration loop: INSERT OR IGNORE of each default item in list order.
SeedFrom(m, seq, names) ==
  IF names = << >> THEN << m, seq >>
  ELSE LET n == Head(names) IN
       IF n # "" /\ MenuInsertOk(m, n)
         THEN SeedFrom(MenuInsert(m, seq, n, MIGRATION_MENU_PRICES[n]), seq + 1,
                       Tail(names))
         ELSE SeedFrom(m, seq, Tail(names))

SeedList ==
  SubSeq(MIGRATION_MENU_ITEMS, 1,
         IF SeedLen < Len(MIGRATION_MENU_ITEMS)
           THEN SeedLen ELSE Len(MIGRATION_MENU_ITEMS))

\* SELECT COUNT(*) FROM menu; if it is 0, run the migration loop.
SeedNeeded(m) == Cardinality(m) = 0

\* SELECT price FROM menu WHERE name=?; price = result[0] if result else 0
PriceOf(m, item) ==
  IF \E e \in m : e.name = item
    THEN (CHOOSE e \in m : e.name = item).price
    ELSE 0

\* ---------------------------------------------------------- store: orders
Row(ords, order_id) == CHOOSE r \in ords : r.id = order_id

HasRow(ords, order_id) == \E r \in ords : r.id = order_id

add_order_price_by_id(ords, seq, m, table_id, section_id, item, qty, is_parcel) ==
  ords \cup { [ id |-> seq + 1, table_id |-> table_id, section_id |-> section_id,
                item |-> item, qty |-> qty, status |-> "Preparing",
                price |-> IF \E e \in m : e.id = seq + 1
                            THEN (CHOOSE e \in m : e.id = seq + 1).price ELSE 0,
                is_parcel |-> is_parcel ] }

add_order(ords, seq, m, table_id, section_id, item, qty, is_parcel) ==
  ords \cup { [ id |-> seq + 1, table_id |-> table_id, section_id |-> section_id,
                item |-> item, qty |-> qty, status |-> "Preparing",
                price |-> PriceOf(m, item), is_parcel |-> is_parcel ] }

SetMax(S) == CHOOSE x \in S : \A y \in S : y <= x

get_new_section_id_any_table(ords, table_id) ==
  LET secs == { r.section_id : r \in ords }
      truthy == secs # {} /\ SetMax(secs) # 0
  IN  (IF truthy THEN SetMax(secs) ELSE 0) + 1

\* SELECT MAX(section_id) FROM orders WHERE table_id=?  (None on no rows)
\* return (max_id or 0) + 1
get_new_section_id(ords, table_id) ==
  LET secs == { r.section_id : r \in { x \in ords : x.table_id = table_id } }
      truthy == secs # {} /\ SetMax(secs) # 0
  IN  (IF truthy THEN SetMax(secs) ELSE 0) + 1

\* UPDATE orders SET qty=? WHERE id=?  /  DELETE FROM orders WHERE id=?
\* as update_qty issues them once it has read the row's qty.
update_qty_write_keeps_zero(ords, order_id, read_qty, change) ==
  LET qty == read_qty + change IN
  IF qty < 0
    THEN { r \in ords : r.id # order_id }
    ELSE { IF r.id = order_id THEN [ r EXCEPT !.qty = qty ] ELSE r : r \in ords }

update_qty_write(ords, order_id, read_qty, change) ==
  LET qty == read_qty + change IN
  IF qty <= 0
    THEN { r \in ords : r.id # order_id }
    ELSE { IF r.id = order_id THEN [ r EXCEPT !.qty = qty ] ELSE r : r \in ords }

update_status(ords, order_id, status) ==
  { IF r.id = order_id THEN [ r EXCEPT !.status = status ] ELSE r : r \in ords }

delete_order(ords, order_id) == { r \in ords : r.id # order_id }

delete_section(ords, table_id, section_id) ==
  { r \in ords : ~ (r.table_id = table_id /\ r.section_id = section_id) }

toggle_parcel_status(ords, order_id) ==
  { IF r.id = order_id THEN [ r EXCEPT !.is_parcel = ~ r.is_parcel ] ELSE r
      : r \in ords }


\* ------------------------------------------------------------- get_orders
Range(l) == { l[i] : i \in DOMAIN l }

\* A status / items filter argument: None, a list, or a single string.
ArgNone == [ tag |-> "None", list |-> << >>, str |-> "" ]

ArgList(l) == [ tag |-> "list", list |-> l, str |-> "" ]

ArgStr(x) == [ tag |-> "str", list |-> << >>, str |-> x ]

\* Python truth value of such an argument (`if status:`, `if items:`).
Truthy(a) ==
  \/ a.tag = "list" /\ a.list # << >>
  \/ a.tag = "str" /\ a.str # ""

\* Lines 101-112: the WHERE clause get_orders appends for `status`.
StatusClause(r, status) ==
  IF Truthy(status)
    THEN IF status.tag = "list"
           THEN IF Truthy(status)
                  THEN r.status \in Range(status.list)
                  ELSE FALSE          \* " AND 1=0"
           ELSE r.status = status.str
    ELSE TRUE

\* Lines 114-117: the WHERE clause get_orders appends for `items`.
ItemsClause(r, items) ==
  IF Truthy(items) THEN r.item \in Range(items.list) ELSE TRUE

\* table_id / section_id: 0 stands for None (both skip the clause, lines 95, 98).
get_orders(ords, table_id, section_id, status, items) ==
  { r \in ords :
      /\ (table_id # 0 => r.table_id = table_id)
      /\ (section_id # 0 => r.section_id = section_id)
      /\ StatusClause(r, status)
      /\ ItemsClause(r, items) }

\* ------------------------------------------------------------------ totals
RECURSIVE SumOver(_, _)
\* Sum of f[x] over the elements x of S.
SumOver(S, f) ==
  IF S = {} THEN 0
  ELSE LET x == CHOOSE y \in S : TRUE IN f[x] + SumOver(S \ { x }, f)

\* sections = defaultdict(list) keyed by order[2]
SectionsOf(table_orders) ==
  [ sec \in { r.section_id : r \in table_orders } |->
      { r \in table_orders : r.section_id = sec } ]

\* A NULL price column (rows written by add_order always carry a number).
PriceIsNone(r) == r.price \notin Nat

\* section_total_sum = sum(order[7] * order[4] ... if order[7] is not None)
section_total_sum(rows) ==
  SumOver(rows, [ r \in rows |-> IF PriceIsNone(r) THEN 0 ELSE r.price * r.qty ])

\* grand_total: the section sums added up over sorted(sections.items())
grand_total(sections) ==
  SumOver(DOMAIN sections,
          [ sec \in DOMAIN sections |-> section_total_sum(sections[sec]) ])

section_total_display_live(rows, menu_prices) ==
  SumOver(rows, [ r \in rows |-> r.qty * PriceOf(menu_prices, r.item) ])

\* section_total_display: qty * price per line, the catalog price standing
\* in for a NULL price only.
section_total_display(rows, menu_prices) ==
  SumOver(rows,
          [ r \in rows |-> r.qty * (IF PriceIsNone(r)
                                      THEN PriceOf(menu_prices, r.item)
                                      ELSE r.price) ])


\* ------------------------------------------------------------------- Init
\* A fresh store: both tables exist and are empty, no script has run yet.
Init ==
  /\ orders = {}
  /\ orderSeq = 0
  /\ menu = {}
  /\ menuSeq = 0
  /\ seedRuns = 0
  /\ pc = [ s \in Sessions |-> "idle" ]
  /\ click = [ s \in Sessions |-> NoClick ]
  /\ loc = [ s \in Sessions |-> 0 ]
  /\ ret = NoRet
  /\ collapsed = {}

\* ------------------------------------------------------- top of the script
\* Lines 57-73, executed by every script run before any view is drawn.
ScriptTop ==
  /\ menu' = IF SeedNeeded(menu) THEN SeedFrom(menu, menuSeq, SeedList)[1] ELSE menu
  /\ menuSeq' = IF SeedNeeded(menu) THEN SeedFrom(menu, menuSeq, SeedList)[2]
                                    ELSE menuSeq
  /\ seedRuns' = IF SeedNeeded(menu) THEN seedRuns + 1 ELSE seedRuns

Goto(s, label, w, l) ==
  /\ pc' = [ pc EXCEPT ![s] = label ]
  /\ click' = [ click EXCEPT ![s] = w ]
  /\ loc' = [ loc EXCEPT ![s] = l ]

Widget(kind, order_id) == [ NoClick EXCEPT !.kind = kind, !.id = order_id ]

\* A script run with no widget event: st_autorefresh, st.rerun(), page load.
Rerun(s) ==
  /\ pc[s] = "idle"
  /\ ScriptTop
  /\ UNCHANGED << orders, orderSeq, pc, click, loc, ret, collapsed >>

\* ------------------------------------------------------------ Waiter view
\* Orders being inserted by a handler that has not reached its INSERT yet.
AddsInFlight == Cardinality({ s \in Sessions : pc[s] = "add" })

\* Lines 226-258: "Add to Order" pressed.  The run fetches the table's
\* orders and the menu, reads the form (item, quantity, parcel, section
\* option: 0 is "Create New Section") and computes target_section.
AddClick(s, table, item, quantity, parcel, opt) ==
  /\ pc[s] = "idle"
  /\ orderSeq + AddsInFlight < MaxOrders
  /\ ScriptTop
  /\ item \in MenuNames(menu')
  /\ opt \in { 0 } \cup DOMAIN SectionsOf(get_orders(orders, table, 0, ArgNone, ArgNone))
  /\ Goto(s, "add",
          [ kind |-> "add", id |-> 0, table |-> table, option |-> opt,
            section |-> IF opt = 0 THEN get_new_section_id(orders, table) ELSE opt,
            item |-> item, qty |-> quantity, parcel |-> parcel, price |-> 0 ], 0)
  /\ UNCHANGED << orders, orderSeq, ret, collapsed >>

\* Line 260: add_order(selected_table, target_section, item, quantity, parcel);
\* its price lookup and its INSERT are taken as one step.
AddOrderStep(s) ==
  /\ pc[s] = "add"
  /\ orders' = add_order(orders, orderSeq, menu, click[s].table, click[s].section,
                         click[s].item, click[s].qty, click[s].parcel)
  /\ orderSeq' = orderSeq + 1
  /\ Goto(s, "idle", NoClick, 0)
  /\ UNCHANGED << menu, menuSeq, seedRuns, ret, collapsed >>

\* Does the fresh render offer the per-line controls of this order enabled?
\* (disable_qty_buttons, line 305; `if status != "Served"`, line 328)
LineEnabled(ords, order_id) ==
  HasRow(ords, order_id) /\ Row(ords, order_id).status # "Served"

\* Lines 309-317: a quantity button pressed; the run re-fetches the orders
\* and reaches update_qty only if the button is drawn enabled.
QtyClick(s, order_id, change) ==
  /\ pc[s] = "idle"
  /\ ScriptTop
  /\ LineEnabled(orders, order_id)
  /\ Goto(s, "run", [ Widget("qty", order_id) EXCEPT !.qty = change ], 0)
  /\ UNCHANGED << orders, orderSeq, ret, collapsed >>

\* update_qty, lines 129-131: SELECT qty FROM orders WHERE id=?
UpdateQtyRead(s) ==
  /\ pc[s] = "run"
  /\ click[s].kind = "qty"
  /\ IF HasRow(orders, click[s].id)
       THEN /\ Row(orders, click[s].id).qty + click[s].qty <= MaxQty
            /\ Goto(s, "upd", click[s], Row(orders, click[s].id).qty)
       ELSE Goto(s, "idle", NoClick, 0)
  /\ UNCHANGED << orders, orderSeq, menu, menuSeq, seedRuns, ret, collapsed >>

\* update_qty, lines 132-137: DELETE or UPDATE with the qty read before.
UpdateQtyWrite(s) ==
  /\ pc[s] = "upd"
  /\ orders' = update_qty_write(orders, click[s].id, loc[s], click[s].qty)
  /\ collapsed' = IF HasRow(orders, click[s].id) /\ ~ HasRow(orders', click[s].id)
                    THEN collapsed \cup { click[s].id } ELSE collapsed
  /\ Goto(s, "idle", NoClick, 0)
  /\ UNCHANGED << orderSeq, menu, menuSeq, seedRuns, ret >>

\* Lines 328-337: the parcel or the delete button of a line pressed.
LineClick(s, kind, order_id) ==
  /\ pc[s] = "idle"
  /\ kind \in { "parcel", "del" }
  /\ ScriptTop
  /\ LineEnabled(orders, order_id)
  /\ Goto(s, "run", Widget(kind, order_id), 0)
  /\ UNCHANGED << orders, orderSeq, ret, collapsed >>

ToggleParcelStep(s) ==
  /\ pc[s] = "run"
  /\ click[s].kind = "parcel"
  /\ orders' = toggle_parcel_status(orders, click[s].id)
  /\ Goto(s, "idle", NoClick, 0)
  /\ UNCHANGED << orderSeq, menu, menuSeq, seedRuns, ret, collapsed >>

DeleteOrderStep(s) ==
  /\ pc[s] = "run"
  /\ click[s].kind = "del"
  /\ orders' = delete_order(orders, click[s].id)
  /\ Goto(s, "idle", NoClick, 0)
  /\ UNCHANGED << orderSeq, menu, menuSeq, seedRuns, ret, collapsed >>

\* Line 323: a run draws "Mark as Served" for a Ready line; the button
\* carries on_click=update_status, args=(order_id, "Served").
ServeShown(s, order_id) ==
  /\ pc[s] = "idle"
  /\ ScriptTop
  /\ HasRow(orders, order_id)
  /\ Row(orders, order_id).status = "Ready"
  /\ Goto(s, "shown", Widget("serve", order_id), 0)
  /\ UNCHANGED << orders, orderSeq, ret, collapsed >>

\* The button is pressed later: the callback runs before the script does.
ServeCallback(s) ==
  /\ pc[s] = "shown"
  /\ click[s].kind = "serve"
  /\ orders' = update_status(orders, click[s].id, "Served")
  /\ Goto(s, "idle", NoClick, 0)
  /\ UNCHANGED << orderSeq, menu, menuSeq, seedRuns, ret, collapsed >>

\* Lines 282-288: a run draws the delete button of a section, with
\* on_click=delete_section, args=(selected_table, section_id).
SectionShown(s, table, section) ==
  /\ pc[s] = "idle"
  /\ ScriptTop
  /\ section \in DOMAIN SectionsOf(get_orders(orders, table, 0, ArgNone, ArgNone))
  /\ Goto(s, "shown",
          [ NoClick EXCEPT !.kind = "delsec", !.table = table, !.section = section ], 0)
  /\ UNCHANGED << orders, orderSeq, ret, collapsed >>

DeleteSectionCallback(s) ==
  /\ pc[s] = "shown"
  /\ click[s].kind = "delsec"
  /\ orders' = delete_section(orders, click[s].table, click[s].section)
  /\ Goto(s, "idle", NoClick, 0)
  /\ UNCHANGED << orderSeq, menu, menuSeq, seedRuns, ret, collapsed >>

\* ----------------------------------------------------------- Kitchen view
\* The multiselects of the sidebar: any sub-list of the options, in order.
KitchenStatusFilters ==
  { << "Preparing", "Ready" >>, << >>, << "Preparing" >>, << "Served" >> }

\* item_names are the names of the menu (line 361).
KitchenItemFilters(names) == { << >> } \cup { << n >> : n \in names }

\* Lines 358-389: "Mark as Ready" pressed; the run re-fetches
\* get_orders(status=filter_status, items=filter_items) and reaches
\* update_status only for a line it draws as Preparing.
ReadyClick(s, order_id, filter_status, filter_items) ==
  /\ pc[s] = "idle"
  /\ ScriptTop
  /\ filter_items \in KitchenItemFilters(MenuNames(menu'))
  /\ \E o \in get_orders(orders, 0, 0, ArgList(filter_status), ArgList(filter_items)) :
        o.id = order_id /\ o.status = "Preparing"
  /\ Goto(s, "run", Widget("ready", order_id), 0)
  /\ UNCHANGED << orders, orderSeq, ret, collapsed >>

ReadyStep(s) ==
  /\ pc[s] = "run"
  /\ click[s].kind = "ready"
  /\ orders' = update_status(orders, click[s].id, "Ready")
  /\ Goto(s, "idle", NoClick, 0)
  /\ UNCHANGED << orderSeq, menu, menuSeq, seedRuns, ret, collapsed >>

\* ----------------------------------------------------- Configuration view
MenuIds == 1 .. (MaxSeedRuns + 1) * SeedLen + MaxMenuAdds

\* Menu rows inserted by the form so far, and those about to be.
\* Lines 401-407: the "Add Item" form submitted with a non-empty name.
ConfigAddClick(s, new_name, new_price) ==
  /\ pc[s] = "idle"
  /\ menuSeq - seedRuns * SeedLen
       + Cardinality({ x \in Sessions : pc[x] = "cfg" /\ click[x].kind = "add_menu" })
       < MaxMenuAdds
  /\ ScriptTop
  /\ new_name # ""
  /\ Goto(s, "cfg", [ NoClick EXCEPT !.kind = "add_menu", !.item = new_name,
                                     !.price = new_price ], 0)
  /\ UNCHANGED << orders, orderSeq, ret, collapsed >>

\* add_menu_item, lines 165-172: True, or False on IntegrityError.
AddMenuItemStep(s) ==
  /\ pc[s] = "cfg"
  /\ click[s].kind = "add_menu"
  /\ IF MenuInsertOk(menu, click[s].item)
       THEN /\ menu' = MenuInsert(menu, menuSeq, click[s].item, click[s].price)
            /\ menuSeq' = menuSeq + 1
            /\ ret' = [ fn |-> "add_menu_item", val |-> TRUE ]
       ELSE /\ UNCHANGED << menu, menuSeq >>
            /\ ret' = [ fn |-> "add_menu_item", val |-> FALSE ]
  /\ Goto(s, "idle", NoClick, 0)
  /\ UNCHANGED << orders, orderSeq, seedRuns, collapsed >>

\* Lines 416-441: "Save Changes" of the edit form the run draws for a menu row.
ConfigEditClick(s, item_id, edited_name, edited_price) ==
  /\ pc[s] = "idle"
  /\ ScriptTop
  /\ \E e \in menu' : e.id = item_id
  /\ Goto(s, "cfg", [ NoClick EXCEPT !.kind = "edit_menu", !.id = item_id,
                                     !.item = edited_name, !.price = edited_price ], 0)
  /\ UNCHANGED << orders, orderSeq, ret, collapsed >>

\* update_menu_item, lines 174-181: True, or False on IntegrityError.
UpdateMenuItemStep(s) ==
  /\ pc[s] = "cfg"
  /\ click[s].kind = "edit_menu"
  /\ IF MenuUpdateOk(menu, click[s].id, click[s].item)
       THEN /\ menu' = MenuUpdate(menu, click[s].id, click[s].item, click[s].price)
            /\ ret' = [ fn |-> "update_menu_item", val |-> TRUE ]
       ELSE /\ UNCHANGED menu
            /\ ret' = [ fn |-> "update_menu_item", val |-> FALSE ]
  /\ Goto(s, "idle", NoClick, 0)
  /\ UNCHANGED << orders, orderSeq, menuSeq, seedRuns, collapsed >>

\* Lines 430-431: "Delete Item" of a menu row the run draws.
ConfigDeleteClick(s, item_id) ==
  /\ pc[s] = "idle"
  /\ seedRuns < MaxSeedRuns
  /\ ScriptTop
  /\ \E e \in menu' : e.id = item_id
  /\ Goto(s, "cfg", [ NoClick EXCEPT !.kind = "del_menu", !.id = item_id ], 0)
  /\ UNCHANGED << orders, orderSeq, ret, collapsed >>

\* delete_menu_item, lines 183-185
DeleteMenuItemStep(s) ==
  /\ pc[s] = "cfg"
  /\ click[s].kind = "del_menu"
  /\ menu' = { e \in menu : e.id # click[s].id }
  /\ Goto(s, "idle", NoClick, 0)
  /\ UNCHANGED << orders, orderSeq, menuSeq, seedRuns, ret, collapsed >>

ConfigNext(s) ==
  \/ \E n \in ConfigNames, p \in ConfigPrices : ConfigAddClick(s, n, p)
  \/ AddMenuItemStep(s)
  \/ \E i \in MenuIds, n \in ConfigNames, p \in ConfigPrices : ConfigEditClick(s, i, n, p)
  \/ UpdateMenuItemStep(s)
  \/ \E i \in MenuIds : ConfigDeleteClick(s, i)
  \/ DeleteMenuItemStep(s)

\* The admin console alone: session 1 works the Configuration view, the
\* other sessions re-run the script (lines 45-73 of every run).
MenuNext ==
  \/ \E s \in Sessions : Rerun(s)
  \/ ConfigNext(1)

SpecMenu == Init /\ [][MenuNext]_vars

\* ------------------------------------------------- the sessions on a ledger
OrderIds == 1 .. MaxOrders

\* Inputs of the interleaving specification: one table, the first seeded
\* item, a fresh line never a parcel (the toggle makes it one).
LedgerTables == { 1 }

LedgerItems == { MIGRATION_MENU_ITEMS[1] }

WaiterNext(s, items) ==
  \/ \E t \in LedgerTables, i \in items, q \in 1 .. MaxQty, opt \in 0 .. MaxOrders :
        AddClick(s, t, i, q, FALSE, opt)
  \/ AddOrderStep(s)
  \/ \E o \in OrderIds, d \in Deltas : QtyClick(s, o, d)
  \/ UpdateQtyRead(s)
  \/ UpdateQtyWrite(s)
  \/ \E o \in OrderIds, k \in { "parcel", "del" } : LineClick(s, k, o)
  \/ ToggleParcelStep(s)
  \/ DeleteOrderStep(s)
  \/ \E o \in OrderIds : ServeShown(s, o)
  \/ ServeCallback(s)
  \/ \E t \in LedgerTables, sec \in 1 .. MaxOrders : SectionShown(s, t, sec)
  \/ DeleteSectionCallback(s)

KitchenNext(s) ==
  \/ \E o \in OrderIds, fs \in KitchenStatusFilters, fi \in KitchenItemFilters(ConfigNames) :
        ReadyClick(s, o, fs, fi)
  \/ ReadyStep(s)

Next ==
  \E s \in Sessions :
    \/ Rerun(s)
    \/ WaiterNext(s, LedgerItems)
    \/ KitchenNext(s)

Spec == Init /\ [][Next]_vars

\* ------------------------------------------- the sessions on the quantities
\* The sessions only add lines and adjust their quantities: the buttons'
\* -1 and 1, and the decrement that empties any line.  At most MaxLines lines
\* are stored or being added at a time, MaxOrders over a behaviour.
QtyNext ==
  \E s \in Sessions :
    \/ Rerun(s)
    \/ /\ Cardinality(orders) + AddsInFlight < MaxLines
       /\ \E q \in { 1, MaxQty } : AddClick(s, 1, MIGRATION_MENU_ITEMS[1], q, FALSE, 0)
    \/ AddOrderStep(s)
    \/ \E o \in OrderIds, d \in { 0 - MaxQty, -1, 1 } : QtyClick(s, o, d)
    \/ UpdateQtyRead(s)
    \/ UpdateQtyWrite(s)

SpecQty == Init /\ [][QtyNext]_vars

\* ------------------------------------------- the functions on a stored state
\* Function-level specifications: the store holds any ledger and menu the
\* program can have built, and one function of the program is applied to it.

\* The seeded menu, and a menu the Configuration view has made of it.
PureMenus ==
  { SeedFrom({}, 0, SeedList)[1],
    { [ id |-> 1, name |-> MIGRATION_MENU_ITEMS[1], price |-> 50 ],
      [ id |-> 2, name |-> "Tea", price |-> 12 ] } }

\* Item and stored price of a row: ordered at the seeded price, at a price
\* "Tea" had, or while the catalog had no "Tea" (price 0).
PureItemPrices ==
  { << MIGRATION_MENU_ITEMS[1], MIGRATION_MENU_PRICES[MIGRATION_MENU_ITEMS[1]] >>,
    << "Tea", 50 >>, << "Tea", 0 >> }

\* The rows of the ledger are drawn from the templates T: each id is either
\* absent (never inserted, or deleted) or one template under that id.
PureInit(T) ==
  /\ \E S \in SUBSET OrderIds :
       \E f \in [ S -> T ] : orders = { [ f[i] EXCEPT !.id = i ] : i \in S }
  /\ orderSeq = MaxOrders
  /\ menu \in PureMenus
  /\ menuSeq = SeedLen + 1
  /\ seedRuns = 1
  /\ pc = [ s \in Sessions |-> "idle" ]
  /\ click = [ s \in Sessions |-> NoClick ]
  /\ loc = [ s \in Sessions |-> 0 ]
  /\ ret = NoRet
  /\ collapsed = {}

\* ---- the queries
QueryRows ==
  { [ id |-> 0, table_id |-> t, section_id |-> sec, item |-> i, qty |-> 1,
      status |-> st, price |-> 12, is_parcel |-> FALSE ] :
      t \in Tables, sec \in 1 .. 2, i \in { MIGRATION_MENU_ITEMS[1], "Tea" },
      st \in { "Preparing", "Served" } }

StatusArgs ==
  { ArgNone, ArgList(<< >>), ArgList(<< "Preparing", "Ready" >>), ArgStr("Served") }

ItemsArgs == { ArgNone, ArgList(<< >>), ArgList(<< "Tea" >>) }

\* The reads leave the store as it is: one call per behaviour shows them all.
CallGetOrders(table_id, section_id, status, items) ==
  /\ ret = NoRet
  /\ ret' = [ fn |-> "get_orders", table_id |-> table_id, section_id |-> section_id,
              status |-> status, items |-> items,
              val |-> get_orders(orders, table_id, section_id, status, items) ]
  /\ UNCHANGED << orders, orderSeq, menu, menuSeq, seedRuns, pc, click, loc, collapsed >>

CallGetNewSectionId(table_id) ==
  /\ ret = NoRet
  /\ ret' = [ fn |-> "get_new_section_id", table_id |-> table_id,
              val |-> get_new_section_id(orders, table_id) ]
  /\ UNCHANGED << orders, orderSeq, menu, menuSeq, seedRuns, pc, click, loc, collapsed >>

QueryNext ==
  \/ \E t \in { 0, 1 }, sec \in { 0, 1 }, st \in StatusArgs, it \in ItemsArgs :
        CallGetOrders(t, sec, st, it)
  \/ \E t \in Tables : CallGetNewSectionId(t)

SpecQuery == PureInit(QueryRows) /\ [][QueryNext]_vars

\* ---- the totals of the Waiter view
TotalsRows ==
  { [ id |-> 0, table_id |-> t, section_id |-> sec, item |-> ip[1], qty |-> q,
      status |-> st, price |-> ip[2], is_parcel |-> FALSE ] :
      t \in Tables, sec \in 1 .. 2,
      ip \in PureItemPrices \ { << "Tea", 0 >> },
      q \in { 1, MaxQty }, st \in { "Preparing", "Served" } }

\* Lines 226-232 and 264-345: a Waiter run draws the selected table; the
\* totals it shows are kept as the value of the run.
WaiterRender(s, selected_table) ==
  /\ pc[s] = "idle"
  /\ ret = NoRet
  /\ ScriptTop
  /\ LET sections == SectionsOf(get_orders(orders, selected_table, 0, ArgNone, ArgNone))
     IN  ret' = [ fn |-> "waiter_view", table_id |-> selected_table,
                  section_total |->
                    [ sec \in DOMAIN sections |->
                        section_total_display(sections[sec], menu') ],
                  grand_total |-> grand_total(sections) ]
  /\ UNCHANGED << orders, orderSeq, pc, click, loc, collapsed >>

TotalsNext == \E s \in Sessions, t \in Tables : WaiterRender(s, t)

SpecTotals == PureInit(TotalsRows) /\ [][TotalsNext]_vars

\* ---- the writes of both tables
StoreRows ==
  { [ id |-> 0, table_id |-> 1, section_id |-> 1, item |-> ip[1], qty |-> q,
      status |-> st, price |-> ip[2], is_parcel |-> par ] :
      ip \in PureItemPrices, q \in { 1, MaxQty }, st \in { "Preparing", "Ready" },
      par \in BOOLEAN }

\* add_order, lines 77-90: the price lookup and the INSERT, taken as one step
\* (the stored price is the one the lookup returned).
CallAddOrder(table_id, section_id, item, qty, is_parcel) ==
  /\ ret = NoRet
  /\ orders' = add_order(orders, orderSeq, menu, table_id, section_id, item, qty,
                         is_parcel)
  /\ orderSeq' = orderSeq + 1
  /\ ret' = [ fn |-> "add_order" ]
  /\ UNCHANGED << menu, menuSeq, seedRuns, pc, click, loc, collapsed >>

\* update_qty, lines 128-138, run without another statement in between.
CallUpdateQty(order_id, change) ==
  /\ ret = NoRet
  /\ IF HasRow(orders, order_id)
       THEN /\ Row(orders, order_id).qty + change <= MaxQty
            /\ orders' = update_qty_write(orders, order_id,
                                          Row(orders, order_id).qty, change)
       ELSE UNCHANGED orders
  /\ ret' = [ fn |-> "update_qty" ]
  /\ UNCHANGED << orderSeq, menu, menuSeq, seedRuns, pc, click, loc, collapsed >>

CallUpdateStatus(order_id, status) ==
  /\ ret = NoRet
  /\ orders' = update_status(orders, order_id, status)
  /\ ret' = [ fn |-> "update_status" ]
  /\ UNCHANGED << orderSeq, menu, menuSeq, seedRuns, pc, click, loc, collapsed >>

CallToggleParcelStatus(order_id) ==
  /\ ret = NoRet
  /\ orders' = toggle_parcel_status(orders, order_id)
  /\ ret' = [ fn |-> "toggle_parcel_status" ]
  /\ UNCHANGED << orderSeq, menu, menuSeq, seedRuns, pc, click, loc, collapsed >>

CallAddMenuItem(name, price) ==
  /\ ret = NoRet
  /\ IF MenuInsertOk(menu, name)
       THEN /\ menu' = MenuInsert(menu, menuSeq, name, price)
            /\ menuSeq' = menuSeq + 1
       ELSE UNCHANGED << menu, menuSeq >>
  /\ ret' = [ fn |-> "add_menu_item", val |-> MenuInsertOk(menu, name) ]
  /\ UNCHANGED << orders, orderSeq, seedRuns, pc, click, loc, collapsed >>

CallUpdateMenuItem(item_id, name, price) ==
  /\ ret = NoRet
  /\ menu' = IF MenuUpdateOk(menu, item_id, name)
               THEN MenuUpdate(menu, item_id, name, price) ELSE menu
  /\ ret' = [ fn |-> "update_menu_item", val |-> MenuUpdateOk(menu, item_id, name) ]
  /\ UNCHANGED << orders, orderSeq, menuSeq, seedRuns, pc, click, loc, collapsed >>

CallDeleteMenuItem(item_id) ==
  /\ ret = NoRet
  /\ menu' = { e \in menu : e.id # item_id }
  /\ ret' = [ fn |-> "delete_menu_item" ]
  /\ UNCHANGED << orders, orderSeq, menuSeq, seedRuns, pc, click, loc, collapsed >>

StoreNext ==
  \/ \E i \in { MIGRATION_MENU_ITEMS[1], "Tea", "Vada" }, q \in { 1, MaxQty } :
        CallAddOrder(1, 1, i, q, FALSE)
  \/ \E o \in OrderIds, d \in { 0 - 1, 1 } : CallUpdateQty(o, d)
  \/ \E o \in OrderIds, st \in { "Ready", "Served" } : CallUpdateStatus(o, st)
  \/ \E o \in OrderIds : CallToggleParcelStatus(o)
  \/ \E n \in { "Tea", "Vada" } : CallAddMenuItem(n, 50)
  \/ \E i \in MenuIds, n \in { MIGRATION_MENU_ITEMS[1], "Tea" }, p \in ConfigPrices :
        CallUpdateMenuItem(i, n, p)
  \/ \E i \in MenuIds : CallDeleteMenuItem(i)

SpecStore == PureInit(StoreRows) /\ [][StoreNext]_vars


\* ================================================================ claims
StatusRank(st) == CASE st = "Preparing" -> 1 [] st = "Ready" -> 2 [] st = "Served" -> 3

\* The session s takes this step out of the handler position `label`.
Leaves(s, label) == pc[s] = label /\ pc'[s] # label

\* C1: after any add_order (qty >= 1) and update_qty calls with any deltas,
\* from any sessions, every order row that exists has qty >= 1.
C1_QtyAtLeastOne == \A r \in orders : r.qty >= 1

\* C1 witness: update_qty has deleted a row whose quantity would have become
\* zero or negative, and a row updated by the sessions is still stored.
C1_Witness == collapsed # {} /\ orders # {}

\* C8: every applied update_qty moves the stored qty of its row by exactly
\* its delta, deleting the row exactly when that sum is <= 0 (so the stored
\* qty is the running sum of the deltas and the row exists iff the sum stayed
\* positive), and an update_qty that finds no row changes nothing.
C8_QtyIsRunningSum ==
  [][ \A s \in Sessions :
        /\ (Leaves(s, "upd") /\ HasRow(orders, click[s].id)) =>
              LET old == Row(orders, click[s].id).qty
                  sum == old + click[s].qty
              IN  IF sum > 0
                    THEN /\ HasRow(orders', click[s].id)
                         /\ Row(orders', click[s].id).qty = sum
                    ELSE ~ HasRow(orders', click[s].id)
        /\ (Leaves(s, "upd") /\ ~ HasRow(orders, click[s].id)) => orders' = orders
        /\ (Leaves(s, "run") /\ click[s].kind = "qty" /\ ~ HasRow(orders, click[s].id)) =>
              orders' = orders /\ pc'[s] = "idle"
    ]_vars

\* C9: a row is created Preparing and its status only moves forward along
\* Preparing -> Ready -> Served: "Mark as Ready" changes a status only from
\* Preparing, "Mark as Served" only from Ready, Served is never left.
C9_StatusOnlyForward ==
  [][ /\ \A r \in orders' : ~ HasRow(orders, r.id) => r.status = "Preparing"
      /\ \A r \in orders : HasRow(orders', r.id) =>
            StatusRank(Row(orders', r.id).status) >= StatusRank(r.status)
      /\ \A s \in Sessions, r \in orders :
            ( /\ Leaves(s, "run") /\ click[s].kind = "ready"
              /\ HasRow(orders', r.id) /\ Row(orders', r.id).status # r.status )
            => r.status = "Preparing" /\ Row(orders', r.id).status = "Ready"
      /\ \A s \in Sessions, r \in orders :
            ( /\ Leaves(s, "shown") /\ click[s].kind = "serve"
              /\ HasRow(orders', r.id) /\ Row(orders', r.id).status # r.status )
            => r.status = "Ready" /\ Row(orders', r.id).status = "Served"
    ]_vars

\* C10: no step of a Waiter per-line control (quantity buttons, parcel
\* toggle, line delete) changes or removes a row whose status is Served.
C10_ServedLineFrozen ==
  [][ \A s \in Sessions :
        ( /\ \/ Leaves(s, "run") /\ click[s].kind \in { "qty", "parcel", "del" }
             \/ Leaves(s, "upd") )
        => \A r \in orders : r.status = "Served" => r \in orders'
    ]_vars


\* C2: get_orders with an explicitly empty list as status filter, or as
\* item-names filter, returns no row; with None for a filter it returns
\* every row that matches the other filters.
C2_EmptyListFilterMatchesNothing ==
  ret.fn = "get_orders" =>
    LET tableOk(r) == ret.table_id = 0 \/ r.table_id = ret.table_id
        sectionOk(r) == ret.section_id = 0 \/ r.section_id = ret.section_id
        listOk(a, x) == CASE a.tag = "None" -> TRUE
                          [] a.tag = "list" -> x \in Range(a.list)
                          [] a.tag = "str" -> x = a.str
    IN  /\ ret.status = ArgList(<< >>) => ret.val = {}
        /\ ret.items = ArgList(<< >>) => ret.val = {}
        /\ (ret.status = ArgNone /\ ret.items # ArgList(<< >>)) =>
              ret.val = { r \in orders :
                            tableOk(r) /\ sectionOk(r) /\ listOk(ret.items, r.item) }
        /\ (ret.items = ArgNone /\ ret.status # ArgList(<< >>)) =>
              ret.val = { r \in orders :
                            tableOk(r) /\ sectionOk(r) /\ listOk(ret.status, r.status) }

\* C3: the default menu is seeded exactly once, by the first run on the empty
\* catalog: when the catalog is empty again after its items were deleted, no
\* later script run takes the seeding branch.
C3_SeededExactlyOnce == seedRuns <= 1

\* C4: a new order row carries the catalog price its item has when add_order
\* runs (0 if the catalog has no such name), and no write to either table
\* changes the price or the item of a row that stays in the ledger.
C4_PriceIsSnapshot ==
  [][ /\ \A r \in orders' : ~ HasRow(orders, r.id) =>
            \/ \E e \in menu : e.name = r.item /\ e.price = r.price
            \/ r.item \notin MenuNames(menu) /\ r.price = 0
      /\ \A r \in orders : HasRow(orders', r.id) =>
            /\ Row(orders', r.id).price = r.price
            /\ Row(orders', r.id).item = r.item
    ]_vars

\* C4 witness: update_menu_item has just re-priced the item of a stored
\* parcel line, whose price stays the one it was ordered at.
C4_Witness ==
  /\ ret = [ fn |-> "update_menu_item", val |-> TRUE ]
  /\ \E r \in orders :
       /\ r.is_parcel /\ r.price = MIGRATION_MENU_PRICES[MIGRATION_MENU_ITEMS[1]]
       /\ \E e \in menu : e.name = r.item /\ e.price = 50

\* C5: the section total the Waiter view shows for each section of the
\* selected table is the sum of qty * stored price over the section's rows,
\* Served rows included, and the grand total is the sum of the section
\* totals, whatever the catalog prices are now.
C5_TotalsFromStoredPrices ==
  ret.fn = "waiter_view" =>
    LET rows == { r \in orders : r.table_id = ret.table_id }
        secs == { r.section_id : r \in rows }
        due(sec) == LET in_sec == { r \in rows : r.section_id = sec }
                    IN  SumOver(in_sec, [ r \in in_sec |-> r.qty * r.price ])
    IN  /\ DOMAIN ret.section_total = secs
        /\ \A sec \in secs : ret.section_total[sec] = due(sec)
        /\ ret.grand_total = SumOver(secs, ret.section_total)

\* C5 witness: a view with two sections and a positive grand total, drawn
\* while a Served line's stored price differs from the catalog's.
C5_Witness ==
  /\ ret.fn = "waiter_view"
  /\ Cardinality(DOMAIN ret.section_total) >= 2
  /\ ret.grand_total > 0
  /\ \E r \in orders :
       /\ r.table_id = ret.table_id /\ r.status = "Served" /\ r.price # 0
       /\ PriceOf(menu, r.item) # r.price

\* C6: get_new_section_id(table_id) is 1 for a table without rows and
\* 1 + the largest section_id of the table's rows otherwise; no row of the
\* table has the returned id; rows of other tables do not count.
C6_NewSectionIdIsFresh ==
  ret.fn = "get_new_section_id" =>
    LET secs == { r.section_id : r \in { x \in orders : x.table_id = ret.table_id } }
    IN  /\ secs = {} => ret.val = 1
        /\ secs # {} => /\ ret.val - 1 \in secs
                        /\ \A x \in secs : x < ret.val
        /\ ret.val \notin secs

\* C6 witness: the id returned for a table with rows, while another table
\* holds a section numbered at least as high.
C6_Witness ==
  /\ ret.fn = "get_new_section_id"
  /\ \E r \in orders : r.table_id = ret.table_id
  /\ \E r \in orders : r.table_id # ret.table_id /\ r.section_id >= ret.val

\* C7: add_menu_item with a name the catalog has, and update_menu_item
\* renaming a row to the name of another row, return False and leave the
\* catalog as it was; no two rows of the catalog ever share a name.
C7_DuplicateNameRejected ==
  /\ [](\A a \in menu, b \in menu : a.name = b.name => a = b)
  /\ [][ \A s \in Sessions :
           /\ ( /\ Leaves(s, "cfg") /\ click[s].kind = "add_menu"
                /\ click[s].item \in MenuNames(menu) )
              => ret' = [ fn |-> "add_menu_item", val |-> FALSE ] /\ menu' = menu
           /\ ( /\ Leaves(s, "cfg") /\ click[s].kind = "edit_menu"
                /\ \E e \in menu : e.id = click[s].id
                /\ \E e \in menu : e.id # click[s].id /\ e.name = click[s].item )
              => ret' = [ fn |-> "update_menu_item", val |-> FALSE ] /\ menu' = menu
       ]_vars

\* C7 witness: update_menu_item has just reported failure on a catalog of
\* two rows.
C7_Witness ==
  /\ ret = [ fn |-> "update_menu_item", val |-> FALSE ]
  /\ Cardinality(menu) >= 2

\* C11: an "Add to Order" with "Create New Section" never inserts its row
\* under a section_id that already has rows of that table at the moment of
\* the insert, so the rows of two such adds on one table, however their
\* get_new_section_id and add_order steps interleave, are in different
\* sections.
C11_NewSectionNeverShared ==
  [][ \A s \in Sessions :
        (Leaves(s, "add") /\ click[s].option = 0)
        => ~ \E r \in orders :
               r.table_id = click[s].table /\ r.section_id = click[s].section
    ]_vars

====
